---- MODULE Spec2Model ----
(***************************************************************************)
(* Model of the OpenAlex ingestion scripts server/script/{start,populate,  *)
(* db,config}.py: the orchestrator (main), topic discovery, the partition  *)
(* walker fetch_authors_for_topic, the record normalizer                   *)
(* map_author_to_profile / process_researcher_topics, the slug allocator   *)
(* and the MongoDB collections they read and write.                        *)
(*                                                                         *)
(* Strings whose characters matter (names, slugs) are sequences of         *)
(* one-character strings. A MongoDB collection is a sequence of documents  *)
(* in insertion order; a document's _id is its position in the sequence    *)
(* (ObjectIds are unique and never reused; nothing is ever deleted).       *)
(***************************************************************************)
EXTENDS Integers, Sequences, FiniteSets, TLC

(***************************************************************************)
(* config.py limits, scaled down with their order kept:                    *)
(* PER_PAGE <= MAX_PER_TOPIC < SESSION_LIMIT < MAX_AUTHORS = 2*SESSION_LIMIT*)
(* (the source values are 200, 500, 30000 and 60000).                      *)
(***************************************************************************)
PER_PAGE == 2

MAX_PER_TOPIC == 2

SESSION_LIMIT == 3

MAX_AUTHORS == 6

(***************************************************************************)
(* Bounds of the model.                                                    *)
(***************************************************************************)
\* process runs of start.py (the first one and its restarts)
MaxRuns == 2

\* keywords in keywords.json of one run
MaxKeywords == 1

\* author-page requests followed, over all runs
MaxFetches == 2

(***************************************************************************)
(* Text helpers: Python str methods and the re.sub calls of _generate_slug *)
(***************************************************************************)
UpperChars == <<"A","B","C","D","E","F","G","H","I","J","K","L","M",
                "N","O","P","Q","R","S","T","U","V","W","X","Y","Z">>

LowerChars == <<"a","b","c","d","e","f","g","h","i","j","k","l","m",
                "n","o","p","q","r","s","t","u","v","w","x","y","z">>

DigitChars == <<"0","1","2","3","4","5","6","7","8","9">>

Range(s) == { s[i] : i \in DOMAIN s }

\* str.lower() on one character
LowerChar(c) ==
    IF c \in Range(UpperChars)
    THEN LowerChars[CHOOSE i \in DOMAIN UpperChars : UpperChars[i] = c]
    ELSE c

\* regex class \s
IsSpace(c) == c \in {" ", "\t", "\n"}

\* regex class \w
IsWord(c) == c \in Range(LowerChars) \cup Range(UpperChars) \cup Range(DigitChars) \cup {"_"}

Lower(s) == [ i \in DOMAIN s |-> LowerChar(s[i]) ]

SpaceChars == {" ", "\t", "\n"}

RECURSIVE LStrip(_, _)
LStrip(s, chars) ==
    IF s # <<>> /\ Head(s) \in chars THEN LStrip(Tail(s), chars) ELSE s

RECURSIVE RStrip(_, _)
RStrip(s, chars) ==
    IF s # <<>> /\ s[Len(s)] \in chars THEN RStrip(SubSeq(s, 1, Len(s) - 1), chars) ELSE s

\* str.strip(): leading and trailing whitespace removed
Strip(s) == RStrip(LStrip(s, SpaceChars), SpaceChars)

IsHyphen(c) == c = "-"

\* str.strip("-")
StripHyphens(s) == RStrip(LStrip(s, {"-"}), {"-"})

\* re.sub(r"[^\w\s-]", "", s)
RECURSIVE DropSymbols(_)
DropSymbols(s) ==
    IF s = <<>> THEN <<>>
    ELSE IF IsWord(Head(s)) \/ IsSpace(Head(s)) \/ IsHyphen(Head(s))
         THEN <<Head(s)>> \o DropSymbols(Tail(s))
         ELSE DropSymbols(Tail(s))

\* re.sub(r"\s+", "-", s): each maximal run of whitespace becomes one hyphen
RECURSIVE SpacesToHyphen(_)
SpacesToHyphen(s) ==
    IF s = <<>> THEN <<>>
    ELSE IF IsSpace(Head(s))
         THEN <<"-">> \o SpacesToHyphen(LStrip(s, SpaceChars))
         ELSE <<Head(s)>> \o SpacesToHyphen(Tail(s))

\* re.sub(r"-+", "-", s): each maximal run of hyphens becomes one hyphen
RECURSIVE CollapseHyphens(_)
CollapseHyphens(s) ==
    IF s = <<>> THEN <<>>
    ELSE IF IsHyphen(Head(s))
         THEN <<"-">> \o CollapseHyphens(LStrip(s, {"-"}))
         ELSE <<Head(s)>> \o CollapseHyphens(Tail(s))

\* str(counter) for counter >= 0
RECURSIVE Str(_)
Str(n) ==
    IF n < 10 THEN <<DigitChars[n + 1]>>
    ELSE Str(n \div 10) \o <<DigitChars[(n % 10) + 1]>>

(***************************************************************************)
(* Slug helpers                                                            *)
(***************************************************************************)
_generate_slug(name) ==
    IF name = <<>> THEN <<>>
    ELSE StripHyphens(CollapseHyphens(SpacesToHyphen(DropSymbols(Strip(Lower(name))))))

\* f"{base}-{counter}"
Suffixed(base, counter) == base \o <<"-">> \o Str(counter)

\* the slug fields present in a collection (a document without a slug field
\* carries <<>> here: the walker never stores an empty slug)
SlugsOf(col) == { col[i].slug : i \in DOMAIN col } \ {<<>>}

\* col.find_one({"slug": slug}) is not None; a document without the field
\* does not match {"slug": ""}
SlugExists(col, slug) == slug \in SlugsOf(col)

\* variant of the loop that probes the collection only
RECURSIVE ProbeSlugStoreOnly(_, _, _, _, _)
ProbeSlugStoreOnly(base, slug, counter, col, reserved) ==
    IF ~SlugExists(col, slug)
    THEN slug
    ELSE ProbeSlugStoreOnly(base, Suffixed(base, counter), counter + 1, col, reserved)

\* the while loop of _generate_unique_slug, entered with slug and counter
RECURSIVE ProbeSlug(_, _, _, _, _)
ProbeSlug(base, slug, counter, col, reserved) ==
    IF ~(slug \in reserved) /\ ~SlugExists(col, slug)
    THEN slug
    ELSE ProbeSlug(base, Suffixed(base, counter), counter + 1, col, reserved)

\* the number of times the while loop of _generate_unique_slug tests a slug
RECURSIVE ProbeCount(_, _, _, _, _)
ProbeCount(base, slug, counter, col, reserved) ==
    IF ~(slug \in reserved) /\ ~SlugExists(col, slug)
    THEN 1
    ELSE 1 + ProbeCount(base, Suffixed(base, counter), counter + 1, col, reserved)

_generate_unique_slug(name, col, reserved) ==
    ProbeSlug(_generate_slug(name), _generate_slug(name), 1, col, reserved)

(***************************************************************************)
(* Document store helpers (db.py) on collections held as sequences         *)
(***************************************************************************)
Max(S) == CHOOSE x \in S : \A y \in S : y <= x

Min(S) == CHOOSE x \in S : \A y \in S : x <= y

\* positions of the documents named display_name
ByName(col, display_name) == { i \in DOMAIN col : col[i].display_name = display_name }

\* find_document(collection, {"display_name": n}): the first match, 0 for None
FindByName(col, display_name) ==
    IF ByName(col, display_name) = {} THEN 0 ELSE Min(ByName(col, display_name))

\* count_documents(collection)
count_documents(col) == Len(col)

\* find_document(COL_RESEARCHERS, {"identifiers.orcid": orcid}) is truthy
OrcidStored(col, orcid) == \E i \in DOMAIN col : col[i].orcid = orcid

(***************************************************************************)
(* Reference entities                                                      *)
(***************************************************************************)
\* str.upper() on a country code
Upper(s) ==
    [ i \in DOMAIN s |->
        IF s[i] \in Range(LowerChars)
        THEN UpperChars[CHOOSE k \in DOMAIN LowerChars : LowerChars[k] = s[i]]
        ELSE s[i] ]

\* what the naming service answers for a country code when it answers
CommonName(code) == <<"N", ":">> \o code

\* variant of upsert_country in which a failed lookup writes no Country
CountriesAfterUpsertNoFallback(countries, country_code, lookup_ok) ==
    IF country_code = <<>> \/ ~lookup_ok THEN countries
    ELSE IF \E i \in DOMAIN countries : countries[i].id = Upper(country_code)
         THEN countries
         ELSE Append(countries,
                     [id |-> Upper(country_code),
                      display_name |-> CommonName(Upper(country_code))])

\* upsert_country: the collection after the call; lookup_ok tells whether the
\* request to the naming service succeeded
CountriesAfterUpsert(countries, country_code, lookup_ok) ==
    IF country_code = <<>> THEN countries
    ELSE IF \E i \in DOMAIN countries : countries[i].id = Upper(country_code)
         THEN countries
         ELSE Append(countries,
                     [id |-> Upper(country_code),
                      display_name |-> IF lookup_ok THEN CommonName(Upper(country_code))
                                       ELSE Upper(country_code)])

\* upsert_country: its return value (<<>> stands for None)
upsert_country(country_code) ==
    IF country_code = <<>> THEN <<>> ELSE Upper(country_code)

\* upsert_field: the fields collection after update_one(..., upsert=True)
FieldsAfterUpsert(fields, field_name) ==
    IF ByName(fields, field_name) # {} THEN fields
    ELSE Append(fields, [display_name |-> field_name])

\* upsert_field: the _id it returns
upsert_field(fields, field_name) ==
    FindByName(FieldsAfterUpsert(fields, field_name), field_name)

\* a new Topic document as upsert_topic and process_researcher_topics build it
NewTopic(display_name, field_id, count) ==
    [display_name |-> display_name, field_id |-> field_id,
     cursor |-> "*", researchers_count |-> count]

(***************************************************************************)
(* process_researcher_topics                                               *)
(***************************************************************************)
\* existing_map[display_name]: the dict comprehension keeps the last of the
\* documents find_documents returned for a name
ExistingDoc(snap, display_name) == Max(ByName(snap, display_name))

\* the sync_status value written for a topic the record mentions again:
\* existing_doc's dict is shared by every mention, so the count accumulates
IncrementedCount(snap, id) == snap[id].researchers_count + 1

\* one iteration of "for topic in topics" on the loop state st
\*   tp, fl : the topics and fields collections;  snap : the documents read in
\*   step 1 (mutated in place);  ids, tags, missing, added : the locals
TopicStep(st, topic) ==
    LET fl2      == FieldsAfterUpsert(st.fl, topic.field)
        field_id == upsert_field(st.fl, topic.field)
        tags2    == IF field_id \in st.added THEN st.tags
                    ELSE Append(st.tags, <<"field", field_id>>)
        added2   == st.added \cup {field_id}
    IN  IF ByName(st.snap, topic.display_name) # {}
        THEN LET id  == ExistingDoc(st.snap, topic.display_name)
                 cnt == IncrementedCount(st.snap, id)
             IN  [st EXCEPT !.fl = fl2, !.added = added2,
                            !.snap = [st.snap EXCEPT ![id].researchers_count = cnt],
                            !.tp = [st.tp EXCEPT ![id].cursor = st.snap[id].cursor,
                                                 ![id].researchers_count = cnt],
                            !.ids = Append(st.ids, id),
                            !.tags = Append(tags2, <<"topic", id>>)]
        ELSE [st EXCEPT !.fl = fl2, !.added = added2, !.tags = tags2,
                        !.missing = Append(st.missing,
                                           NewTopic(topic.display_name, field_id, 1))]

RECURSIVE TopicLoop(_, _)
TopicLoop(st, topics) ==
    IF topics = <<>> THEN st
    ELSE TopicLoop(TopicStep(st, Head(topics)), Tail(topics))

\* the whole function: [tp, fl] are the collections after it, ids and tags
\* its two return values
process_researcher_topics(tp, fl, topics) ==
    LET st  == TopicLoop([tp |-> tp, fl |-> fl, snap |-> tp, ids |-> <<>>,
                          tags |-> <<>>, missing |-> <<>>, added |-> {}], topics)
        new == [ k \in 1..Len(st.missing) |-> Len(st.tp) + k ]
    IN  [tp   |-> st.tp \o st.missing,
         fl   |-> st.fl,
         ids  |-> st.ids \o new,
         tags |-> st.tags \o [ k \in 1..Len(new) |-> <<"topic", new[k]>> ]]

(***************************************************************************)
(* map_author_to_profile                                                   *)
(***************************************************************************)
\* ror = inst.get("ror", "") or inst.get("display_name", "")
RorKey(inst) == IF inst.ror # "" THEN inst.ror ELSE inst.display_name

FindByRor(institutions, ror) ==
    IF \E i \in DOMAIN institutions : institutions[i].ror = ror
    THEN Min({ i \in DOMAIN institutions : institutions[i].ror = ror })
    ELSE 0

\* upsert_document_new(COL_INSTITUTIONS, {"ror": ror}, {}, inst_doc): the
\* document is written by $setOnInsert, only when no document has the ror
InstitutionsAfterUpsert(institutions, inst_doc) ==
    IF FindByRor(institutions, inst_doc.ror) # 0 THEN institutions
    ELSE Append(institutions, inst_doc)

\* the find-or-create of one institution (lines 231-247 and 269-285) on the
\* loop state st: ins, co the collections, memo the ror_to_id dict
ResolveInstitution(st, inst, lookup_ok) ==
    LET ror == RorKey(inst)
    IN  IF ror \in DOMAIN st.memo
        THEN [st EXCEPT !.inst_id = st.memo[ror], !.country_id = <<>>]
        ELSE IF FindByRor(st.ins, ror) # 0
             THEN LET id == FindByRor(st.ins, ror)
                  IN  [st EXCEPT !.inst_id = id, !.country_id = st.ins[id].country_id,
                                 !.memo = (ror :> id) @@ st.memo]
             ELSE LET co2 == CountriesAfterUpsert(st.co, inst.country_code, lookup_ok)
                      doc == [display_name |-> inst.display_name, ror |-> ror,
                              country_id |-> upsert_country(inst.country_code)]
                      ins2 == InstitutionsAfterUpsert(st.ins, doc)
                      id  == FindByRor(ins2, ror)
                  IN  [st EXCEPT !.co = co2, !.ins = ins2,
                                 !.inst_id = id, !.country_id = doc.country_id,
                                 !.memo = (ror :> id) @@ st.memo]

\* one iteration of "for aff in author.get('affiliations')"
AffiliationStep(st, inst, lookup_ok) ==
    IF RorKey(inst) = "" THEN st
    ELSE LET r  == ResolveInstitution(st, inst, lookup_ok)
             t1 == Append(r.tags, <<"institution", r.inst_id>>)
         IN  [r EXCEPT !.affiliations = Append(r.affiliations, r.inst_id),
                       !.tags = IF r.country_id # <<>> /\ r.country_id \notin r.added_countries
                                THEN Append(t1, <<"country", r.country_id>>)
                                ELSE t1,
                       !.added_countries =
                           IF r.country_id # <<>> THEN r.added_countries \cup {r.country_id}
                           ELSE r.added_countries]

RECURSIVE AffiliationLoop(_, _, _)
AffiliationLoop(st, affs, lookup_ok) ==
    IF affs = <<>> THEN st
    ELSE AffiliationLoop(AffiliationStep(st, Head(affs), lookup_ok), Tail(affs), lookup_ok)

\* one iteration of "for inst in author.get('last_known_institutions')"
LastKnownStep(st, inst, lookup_ok) ==
    IF RorKey(inst) = "" THEN st
    ELSE LET r == ResolveInstitution(st, inst, lookup_ok)
         IN  [r EXCEPT !.last_known = Append(r.last_known, r.inst_id)]

RECURSIVE LastKnownLoop(_, _, _)
LastKnownLoop(st, insts, lookup_ok) ==
    IF insts = <<>> THEN st
    ELSE LastKnownLoop(LastKnownStep(st, Head(insts), lookup_ok), Tail(insts), lookup_ok)

\* the function on the store db = [topics, fields, institutions, countries]:
\* the profile it returns (slug not yet set) and the store after it
map_author_to_profile(author, db, lookup_ok) ==
    LET st0 == [ins |-> db.institutions, co |-> db.countries, memo |-> <<>>,
                inst_id |-> 0, country_id |-> <<>>, tags |-> <<>>,
                added_countries |-> {}, affiliations |-> <<>>, last_known |-> <<>>]
        st1 == AffiliationLoop(st0, author.affiliations, lookup_ok)
        st2 == LastKnownLoop(st1, author.last_known_institutions, lookup_ok)
        prt == process_researcher_topics(db.topics, db.fields, author.topics)
    IN  [profile |-> [name |-> author.display_name,
                      orcid |-> author.orcid,
                      slug |-> <<>>,
                      affiliations |-> st2.affiliations,
                      last_known_affiliations |-> st2.last_known,
                      topics |-> prt.ids,
                      search_tags |-> st2.tags \o prt.tags],
         db |-> [topics |-> prt.tp, fields |-> prt.fl,
                 institutions |-> st2.ins, countries |-> st2.co]]

(***************************************************************************)
(* insert_many_documents (db.py) on the researchers collection             *)
(***************************************************************************)
\* collection.insert_many(documents, ordered=False): with a unique index on
\* identifiers.orcid every document whose key is new is written and the
\* others are rejected; without the index every document is written
RECURSIVE InsertedMany(_, _, _)
InsertedMany(col, docs, unique) ==
    IF docs = <<>> THEN col
    ELSE IF unique /\ OrcidStored(col, Head(docs).orcid)
         THEN InsertedMany(col, Tail(docs), unique)
         ELSE InsertedMany(Append(col, Head(docs)), Tail(docs), unique)

\* insert_many raises BulkWriteError when a document was rejected
RaisesBulkWriteError(col, docs, unique) ==
    Len(InsertedMany(col, docs, unique)) < Len(col) + Len(docs)

(***************************************************************************)
(* The upstream catalog (OpenAlex): what a request can answer              *)
(***************************************************************************)
T1 == [display_name |-> "T1", field |-> "F1"]

T2 == [display_name |-> "T2", field |-> "F2"]

I1 == [ror |-> "ror1", display_name |-> "Inst One", country_code |-> <<"u", "s">>]

JaneDoe == <<"J","a","n","e"," ","D","o","e">>

JaneDoeBang == <<"J","a","n","e"," "," ","D","o","e","!","!">>

JaneDoe1 == <<"J","a","n","e"," ","D","o","e","-","1">>

Author(orcid, name, topics, affs) ==
    [orcid |-> orcid, display_name |-> name, topics |-> topics,
     affiliations |-> affs, last_known_institutions |-> affs]

\* the raw author records the /authors endpoint can return
Catalog ==
    { Author("0000-0001", JaneDoe, <<T1>>, <<>>),
      Author("0000-0002", JaneDoeBang, <<T1, T1>>, <<I1>>),
      Author("0000-0003", JaneDoe1, <<T2>>, <<>>),
      Author("", JaneDoe, <<T1>>, <<>>),
      Author("0000-0004", <<>>, <<>>, <<I1, I1>>) }

\* len(data["results"]) of one page: at most PER_PAGE records
PageLengths == 0..PER_PAGE

\* the topics the /topics endpoint can return for a keyword
TopicResults == { <<>>, <<T1>>, <<T2>>, <<T1, T2>> }

\* the cursor chain of a partition: "*" then the tokens, then no token
CursorChain == <<"*", "c1", "c2">>

\* meta.next_cursor of the page fetched with cursor: the next token of the
\* chain, or none ("None" when the key is absent, "" when it is empty)
NextCursors(cursor) ==
    {"None", ""} \cup
    { CursorChain[i + 1] : i \in { j \in 1..(Len(CursorChain) - 1) : CursorChain[j] = cursor } }

\* variant of the truthiness test that takes the empty string for a token
FalsyNoneOnly(cursor) == cursor = "None"

\* Python truthiness of a cursor value
Falsy(cursor) == cursor \in {"None", ""}

(***************************************************************************)
(* State                                                                   *)
(***************************************************************************)
VARIABLES
    researchers,     \* COL_RESEARCHERS
    topics,          \* COL_TOPICS
    fields,          \* COL_FIELDS
    institutions,    \* COL_INSTITUTIONS
    countries,       \* COL_COUNTRIES
    orcid_unique,    \* whether the store has a unique index on identifiers.orcid
    pc,              \* where the process is: main, loop, page, insert, cursor, exit, crashed
    died_at,         \* for pc = "crashed": where the process was when it died
    runs,            \* process runs started so far
    fetches,         \* author-page requests issued so far
    kw_left,         \* keywords main has not yet taken
    fetch_topics,    \* main: the topics of the current keyword still to walk
    global_counter,  \* global_counter["inserted"]
    display_name,    \* fetch_authors_for_topic: the locals of the walk
    total_in_db,
    current_count,
    cursor,
    reserved_slugs,
    page_len,        \* len(authors) of the page in hand
    idx,             \* position of "for author in authors"
    new_docs,
    orcid,           \* the ORCID of the record the for loop examined last
    log,             \* the last message printed
    workers,         \* two processes normalizing at once: where each one is
    page_topics      \* history: COL_TOPICS when the page in hand was fetched

store == <<researchers, topics, fields, institutions, countries, orcid_unique>>

walk == <<display_name, total_in_db, current_count, cursor, reserved_slugs,
          page_len, idx, new_docs, orcid>>

vars == <<researchers, topics, fields, institutions, countries, orcid_unique,
          pc, died_at, runs, fetches, kw_left, fetch_topics, global_counter,
          display_name, total_in_db, current_count, cursor, reserved_slugs,
          page_len, idx, new_docs, orcid, log, page_topics, workers>>

(***************************************************************************)
(* Initial states: a store left by earlier runs, and a process at the top  *)
(* of main()                                                               *)
(***************************************************************************)
LegacyOrcids == <<"9000-0001", "9000-0002", "9000-0003", "9000-0004",
                  "9000-0005", "9000-0006", "9000-0007", "9000-0008">>

\* a profile written by an earlier run
LegacyProfile(i) ==
    [name |-> <<"L">> \o Str(i), orcid |-> LegacyOrcids[i], slug |-> <<"l">> \o Str(i),
     affiliations |-> <<>>, last_known_affiliations |-> <<>>,
     topics |-> <<>>, search_tags |-> <<>>]

LegacyStore(n) == [ i \in 1..n |-> LegacyProfile(i) ]

\* sizes of the researcher collection the runs start from
InitialSizes == {0, MAX_AUTHORS - 1}

Init ==
    /\ researchers \in { LegacyStore(n) : n \in InitialSizes }
    /\ topics = <<>>
    /\ fields = <<>>
    /\ institutions = <<>>
    /\ countries = <<>>
    /\ orcid_unique \in BOOLEAN
    /\ pc = "main"
    /\ died_at = ""
    /\ runs = 1
    /\ fetches = 0
    /\ kw_left = MaxKeywords
    /\ fetch_topics = <<>>
    /\ global_counter = 0
    /\ display_name = ""
    /\ total_in_db = 0
    /\ current_count = 0
    /\ cursor = "*"
    /\ reserved_slugs = {}
    /\ page_len = 0
    /\ idx = 1
    /\ new_docs = <<>>
    /\ orcid = ""
    /\ log = ""
    /\ page_topics = <<>>
    /\ workers = <<>>

\* the locals of fetch_authors_for_topic do not outlive the call
NoWalk ==
    /\ display_name' = "" /\ total_in_db' = 0 /\ current_count' = 0 /\ cursor' = "*"
    /\ reserved_slugs' = {} /\ page_len' = 0 /\ idx' = 1
    /\ new_docs' = <<>> /\ orcid' = "" /\ page_topics' = <<>>

(***************************************************************************)
(* start.py: fetch_topics_for_keyword and main                             *)
(***************************************************************************)
\* variant of upsert_topic that writes the document with $set: an existing
\* document gets the initial sync_status again
upsert_topic_overwrite(st, topic) ==
    LET fl2      == IF topic.field # "" THEN FieldsAfterUpsert(st.fl, topic.field) ELSE st.fl
        field_id == IF topic.field # "" THEN upsert_field(st.fl, topic.field) ELSE 0
        doc      == NewTopic(topic.display_name, field_id, 0)
    IN  [st EXCEPT !.fl = fl2,
                   !.tp = IF ByName(st.tp, topic.display_name) # {}
                          THEN [st.tp EXCEPT ![FindByName(st.tp, topic.display_name)] = doc]
                          ELSE Append(st.tp, doc)]

\* upsert_topic: the store after it (the field, then the topic with
\* $setOnInsert: an existing document is left as it is)
upsert_topic(st, topic) ==
    LET fl2      == IF topic.field # "" THEN FieldsAfterUpsert(st.fl, topic.field) ELSE st.fl
        field_id == IF topic.field # "" THEN upsert_field(st.fl, topic.field) ELSE 0
    IN  [st EXCEPT !.fl = fl2,
                   !.tp = IF ByName(st.tp, topic.display_name) # {} THEN st.tp
                          ELSE Append(st.tp, NewTopic(topic.display_name, field_id, 0))]

\* one iteration of "for topic in all_topics"; existing is the collection as
\* find_documents read it before the loop
DiscoverStep(st, topic, existing, total, session_remaining) ==
    IF ByName(existing, topic.display_name) # {}
    THEN IF existing[Max(ByName(existing, topic.display_name))].researchers_count >= MAX_PER_TOPIC
         THEN st
         ELSE [st EXCEPT !.out = Append(st.out, topic.display_name)]
    ELSE IF total >= MAX_AUTHORS \/ session_remaining <= 0
         THEN st
         ELSE [upsert_topic(st, topic) EXCEPT !.out = Append(st.out, topic.display_name)]

RECURSIVE DiscoverLoop(_, _, _, _, _)
DiscoverLoop(st, all_topics, existing, total, session_remaining) ==
    IF all_topics = <<>> THEN st
    ELSE DiscoverLoop(DiscoverStep(st, Head(all_topics), existing, total, session_remaining),
                      Tail(all_topics), existing, total, session_remaining)

\* main takes the next keyword and the /topics request answers with found
FetchTopicsForKeyword(found) ==
    /\ pc = "main" /\ fetch_topics = <<>> /\ kw_left > 0
    /\ LET st == DiscoverLoop([tp |-> topics, fl |-> fields, out |-> <<>>], found, topics,
                              count_documents(researchers), SESSION_LIMIT - global_counter)
       IN  /\ topics' = st.tp
           /\ fields' = st.fl
           /\ fetch_topics' = st.out
    /\ kw_left' = kw_left - 1
    /\ log' = "topics_fetched"
    /\ UNCHANGED <<researchers, institutions, countries, orcid_unique, pc, died_at, runs,
                   fetches, global_counter, page_topics>>
    /\ UNCHANGED walk
    /\ UNCHANGED workers

\* the /topics request fails: the except branch returns []
FetchTopicsError ==
    /\ pc = "main" /\ fetch_topics = <<>> /\ kw_left > 0
    /\ kw_left' = kw_left - 1
    /\ fetch_topics' = <<>>
    /\ log' = "topics_error"
    /\ UNCHANGED <<store, pc, died_at, runs, fetches, global_counter, page_topics>>
    /\ UNCHANGED walk
    /\ UNCHANGED workers

\* main has walked every topic of every keyword
Exit ==
    /\ pc = "main" /\ fetch_topics = <<>> /\ kw_left = 0
    /\ pc' = "exit"
    /\ global_counter' = 0
    /\ UNCHANGED <<store, died_at, runs, fetches, kw_left, fetch_topics, log, page_topics>>
    /\ UNCHANGED walk
    /\ UNCHANGED workers

\* start.py is started again on the store the last run left
Restart ==
    /\ pc \in {"exit", "crashed"} /\ runs < MaxRuns
    /\ pc' = "main" /\ died_at' = "" /\ runs' = runs + 1
    /\ kw_left' = MaxKeywords /\ fetch_topics' = <<>> /\ global_counter' = 0
    /\ log' = ""
    /\ UNCHANGED walk
    /\ UNCHANGED <<store, fetches, page_topics>>
    /\ UNCHANGED workers

\* the process is killed inside a walk, between two steps
Crash ==
    /\ pc \in {"loop", "page", "insert", "cursor"}
    /\ pc' = "crashed" /\ died_at' = pc
    /\ kw_left' = 0 /\ fetch_topics' = <<>> /\ global_counter' = 0
    /\ NoWalk
    /\ UNCHANGED <<store, runs, fetches, log>>
    /\ UNCHANGED workers

(***************************************************************************)
(* populate.py: fetch_authors_for_topic                                    *)
(***************************************************************************)
\* global_counter["inserted"] >= config.SESSION_LIMIT
SessionCapHit(inserted) == inserted >= SESSION_LIMIT

\* total_in_db + global_counter["inserted"] >= config.MAX_AUTHORS
DbCapHit(total, inserted) == total + inserted >= MAX_AUTHORS

\* current_count >= config.MAX_PER_TOPIC
TopicCapHit(count) == count >= MAX_PER_TOPIC

\* sync_status.get("researchers_count", 0) of the topic record, {} when missing
PersistedCount(tp, name) ==
    IF FindByName(tp, name) = 0 THEN 0 ELSE tp[FindByName(tp, name)].researchers_count

\* sync_status.get("cursor", "*") of the topic record, {} when missing
PersistedCursor(tp, name) ==
    IF FindByName(tp, name) = 0 THEN "*" ELSE tp[FindByName(tp, name)].cursor

\* variant of the early returns without the test of line 359
SkipReasonNoTopicCap(total, inserted, count) ==
    IF total >= MAX_AUTHORS THEN "skip_db_cap"
    ELSE IF SessionCapHit(inserted) THEN "skip_session_cap"
    ELSE ""

\* why lines 344-361 return before the loop, "" when they do not
SkipReason(total, inserted, count) ==
    IF total >= MAX_AUTHORS THEN "skip_db_cap"
    ELSE IF SessionCapHit(inserted) THEN "skip_session_cap"
    ELSE IF TopicCapHit(count) THEN "skip_topic_cap"
    ELSE ""

\* main calls fetch_authors_for_topic on the next topic: lines 341-367
StartWalk ==
    /\ pc = "main" /\ fetch_topics # <<>>
    /\ LET name   == Head(fetch_topics)
           total  == count_documents(researchers)
           count  == PersistedCount(topics, name)
           reason == SkipReason(total, global_counter, count)
       IN  /\ fetch_topics' = Tail(fetch_topics)
           /\ IF reason # ""
              THEN /\ pc' = "main" /\ log' = reason
                   /\ NoWalk
              ELSE /\ pc' = "loop" /\ log' = "walk_started"
                   /\ display_name' = name
                   /\ total_in_db' = total
                   /\ current_count' = count
                   /\ cursor' = PersistedCursor(topics, name)
                   /\ reserved_slugs' = {}
                   /\ UNCHANGED <<page_len, idx, new_docs, orcid, page_topics>>
    /\ UNCHANGED <<store, died_at, runs, fetches, kw_left, global_counter>>
    /\ UNCHANGED workers

\* which cap the re-check at the top of the while loop finds, "" for none
StopReason(total, inserted, count) ==
    IF SessionCapHit(inserted) THEN "stop_session_cap"
    ELSE IF DbCapHit(total, inserted) THEN "stop_db_cap"
    ELSE IF TopicCapHit(count) THEN "stop_topic_cap"
    ELSE ""

\* variant of the cap stop that ends the run whichever cap tripped
CapStopEndsRun ==
    /\ pc = "loop"
    /\ StopReason(total_in_db, global_counter, current_count) # ""
    /\ pc' = "main"
    /\ log' = StopReason(total_in_db, global_counter, current_count)
    /\ kw_left' = 0 /\ fetch_topics' = <<>>
    /\ NoWalk
    /\ UNCHANGED <<store, died_at, runs, fetches, global_counter>>
    /\ UNCHANGED workers

\* variant of the cap stop with "continue" for "break": the loop goes round
CapStopContinues ==
    /\ pc = "loop"
    /\ StopReason(total_in_db, global_counter, current_count) # ""
    /\ pc' = "loop"
    /\ log' = StopReason(total_in_db, global_counter, current_count)
    /\ UNCHANGED <<store, died_at, runs, fetches, kw_left, fetch_topics, global_counter,
                   page_topics>>
    /\ UNCHANGED walk
    /\ UNCHANGED workers

\* lines 371-379: a cap is hit, the walk returns
CapStop ==
    /\ pc = "loop"
    /\ StopReason(total_in_db, global_counter, current_count) # ""
    /\ pc' = "main"
    /\ log' = StopReason(total_in_db, global_counter, current_count)
    /\ NoWalk
    /\ UNCHANGED <<store, died_at, runs, fetches, kw_left, fetch_topics, global_counter>>
    /\ UNCHANGED workers

\* variant of the request without the try/except: the exception leaves main
FetchErrorPropagates ==
    /\ pc = "loop" /\ fetches < MaxFetches
    /\ StopReason(total_in_db, global_counter, current_count) = ""
    /\ fetches' = fetches + 1
    /\ pc' = "crashed" /\ died_at' = "requests.get"
    /\ log' = "api_error"
    /\ kw_left' = 0 /\ fetch_topics' = <<>> /\ global_counter' = 0
    /\ NoWalk
    /\ UNCHANGED <<store, runs>>
    /\ UNCHANGED workers

\* lines 388-394: the request raises, the walk returns
FetchError ==
    /\ pc = "loop" /\ fetches < MaxFetches
    /\ StopReason(total_in_db, global_counter, current_count) = ""
    /\ fetches' = fetches + 1
    /\ pc' = "main"
    /\ log' = "api_error"
    /\ NoWalk
    /\ UNCHANGED <<store, died_at, runs, kw_left, fetch_topics, global_counter>>
    /\ UNCHANGED workers

\* lines 381-401: the request answers with a page of n records. The records
\* and meta.next_cursor are drawn where the code reads them (lines 402, 438)
FetchPage(n) ==
    /\ pc = "loop" /\ fetches < MaxFetches
    /\ StopReason(total_in_db, global_counter, current_count) = ""
    /\ fetches' = fetches + 1
    /\ IF n = 0
       THEN /\ pc' = "main" /\ log' = "no_more_authors"
            /\ NoWalk
       ELSE /\ pc' = "page" /\ log' = "page_fetched"
            /\ page_len' = n
            /\ page_topics' = topics
            /\ idx' = 1 /\ new_docs' = <<>>
            /\ UNCHANGED <<display_name, total_in_db, current_count, cursor, reserved_slugs,
                           orcid>>
    /\ UNCHANGED <<store, died_at, runs, kw_left, fetch_topics, global_counter>>
    /\ UNCHANGED workers

\* variant of the per-record checks without the test of line 407
RecordCapHitNoTopicCap(total, inserted, count) ==
    SessionCapHit(inserted) \/ DbCapHit(total, inserted)

\* lines 403-408: the caps as the for loop checks them before each record
RecordCapHit(total, inserted, count) ==
    SessionCapHit(inserted) \/ DbCapHit(total, inserted) \/ TopicCapHit(count)

\* variant of the filter without the lookup of line 414
RejectedEmptyOnly(author, col) == author.orcid = ""

\* variant of the filter without the test of line 411
RejectedStoredOnly(author, col) == OrcidStored(col, author.orcid)

\* variant of the filter that also drops a record whose name gives no slug
RejectedOrNoSlug(author, col) ==
    \/ author.orcid = "" \/ OrcidStored(col, author.orcid)
    \/ _generate_slug(Strip(author.display_name)) = <<>>

\* lines 410-415: the record is passed over
Rejected(author, col) == author.orcid = "" \/ OrcidStored(col, author.orcid)

\* lines 419-425: the slug given to a mapped profile, <<>> for none
SlugFor(name, col, reserved) ==
    IF Strip(name) = <<>> THEN <<>>
    ELSE _generate_unique_slug(Strip(name), col, reserved)

\* where the for loop goes after the record at idx
AfterRecord(i) == IF i + 1 > page_len THEN "insert" ELSE "page"

\* lines 402-408: a cap breaks the for loop
RecordCapBreak ==
    /\ pc = "page"
    /\ RecordCapHit(total_in_db, global_counter, current_count)
    /\ pc' = "insert"
    /\ UNCHANGED <<store, died_at, runs, fetches, kw_left, fetch_topics, global_counter,
                   log, page_topics>>
    /\ UNCHANGED walk
    /\ UNCHANGED workers

\* variant of the filter that maps the record before it looks at its ORCID
SkipAfterMapping(author) ==
    /\ pc = "page"
    /\ ~RecordCapHit(total_in_db, global_counter, current_count)
    /\ Rejected(author, researchers)
    /\ LET m == map_author_to_profile(author,
                    [topics |-> topics, fields |-> fields,
                     institutions |-> institutions, countries |-> countries], TRUE)
       IN  /\ topics' = m.db.topics
           /\ fields' = m.db.fields
           /\ institutions' = m.db.institutions
           /\ countries' = m.db.countries
    /\ orcid' = author.orcid
    /\ idx' = idx + 1
    /\ pc' = AfterRecord(idx)
    /\ UNCHANGED <<researchers, orcid_unique, died_at, runs, fetches, kw_left, fetch_topics,
                   global_counter, log, page_topics, display_name, total_in_db,
                   current_count, cursor, reserved_slugs, page_len, new_docs>>
    /\ UNCHANGED workers

\* variant of the filter with a merge on reimport: the stored profile of a
\* record met again gets the record's name and a fresh slug
SkipAndMerge(author) ==
    /\ pc = "page"
    /\ ~RecordCapHit(total_in_db, global_counter, current_count)
    /\ Rejected(author, researchers)
    /\ researchers' =
          [ i \in DOMAIN researchers |->
              IF author.orcid # "" /\ researchers[i].orcid = author.orcid
              THEN [researchers[i] EXCEPT
                      !.name = author.display_name,
                      !.slug = SlugFor(author.display_name, researchers, reserved_slugs)]
              ELSE researchers[i] ]
    /\ orcid' = author.orcid
    /\ idx' = idx + 1
    /\ pc' = AfterRecord(idx)
    /\ UNCHANGED <<topics, fields, institutions, countries, orcid_unique, died_at, runs,
                   fetches, kw_left, fetch_topics, global_counter, log, page_topics,
                   display_name, total_in_db, current_count, cursor, reserved_slugs,
                   page_len, new_docs>>
    /\ UNCHANGED workers

\* lines 410-415: the record at idx has no ORCID or is already stored
SkipAuthor(author) ==
    /\ pc = "page"
    /\ ~RecordCapHit(total_in_db, global_counter, current_count)
    /\ Rejected(author, researchers)
    /\ orcid' = author.orcid
    /\ idx' = idx + 1
    /\ pc' = AfterRecord(idx)
    /\ UNCHANGED <<store, died_at, runs, fetches, kw_left, fetch_topics, global_counter,
                   log, page_topics, display_name, total_in_db, current_count, cursor,
                   reserved_slugs, page_len, new_docs>>
    /\ UNCHANGED workers

\* lines 417-430: the record at idx is mapped, given a slug and appended
AdmitAuthor(author, lookup_ok) ==
    /\ pc = "page"
    /\ ~RecordCapHit(total_in_db, global_counter, current_count)
    /\ ~Rejected(author, researchers)
    /\ LET m    == map_author_to_profile(author,
                      [topics |-> topics, fields |-> fields,
                       institutions |-> institutions, countries |-> countries], lookup_ok)
           slug == SlugFor(m.profile.name, researchers, reserved_slugs)
       IN  /\ topics' = m.db.topics
           /\ fields' = m.db.fields
           /\ institutions' = m.db.institutions
           /\ countries' = m.db.countries
           /\ new_docs' = Append(new_docs, [m.profile EXCEPT !.slug = slug])
           /\ reserved_slugs' = IF slug # <<>> THEN reserved_slugs \cup {slug}
                                ELSE reserved_slugs
    /\ current_count' = current_count + 1
    /\ orcid' = author.orcid
    /\ idx' = idx + 1
    /\ pc' = AfterRecord(idx)
    /\ UNCHANGED <<researchers, orcid_unique, died_at, runs, fetches, kw_left, fetch_topics,
                   global_counter, log, page_topics, display_name, total_in_db, cursor,
                   page_len>>
    /\ UNCHANGED workers

\* lines 432-435 with new_docs empty: nothing to insert
InsertNothing ==
    /\ pc = "insert" /\ new_docs = <<>>
    /\ pc' = "cursor"
    /\ UNCHANGED <<store, died_at, runs, fetches, kw_left, fetch_topics, global_counter,
                   log, page_topics>>
    /\ UNCHANGED walk
    /\ UNCHANGED workers

\* lines 432-435: insert_many_documents returns and the session counter grows
InsertBatch ==
    /\ pc = "insert" /\ new_docs # <<>>
    /\ ~RaisesBulkWriteError(researchers, new_docs, orcid_unique)
    /\ researchers' = InsertedMany(researchers, new_docs, orcid_unique)
    /\ global_counter' = global_counter + Len(new_docs)
    /\ pc' = "cursor"
    /\ log' = "inserted"
    /\ UNCHANGED <<topics, fields, institutions, countries, orcid_unique, died_at, runs,
                   fetches, kw_left, fetch_topics, page_topics>>
    /\ UNCHANGED walk
    /\ UNCHANGED workers

\* line 433: insert_many raises BulkWriteError after writing the documents the
\* index accepts; nothing catches it, in fetch_authors_for_topic or in main
InsertRaises ==
    /\ pc = "insert" /\ new_docs # <<>>
    /\ RaisesBulkWriteError(researchers, new_docs, orcid_unique)
    /\ researchers' = InsertedMany(researchers, new_docs, orcid_unique)
    /\ pc' = "crashed" /\ died_at' = "insert_many"
    /\ log' = "BulkWriteError"
    /\ kw_left' = 0 /\ fetch_topics' = <<>> /\ global_counter' = 0
    /\ NoWalk
    /\ UNCHANGED <<topics, fields, institutions, countries, orcid_unique, runs, fetches>>
    /\ UNCHANGED workers

\* the sync_status written by the progress commit of lines 444-455
CommittedTopic(doc, crs, count) == [doc EXCEPT !.cursor = crs, !.researchers_count = count]

\* upsert_document_new(COL_TOPICS, {"display_name": name}, {"sync_status": ...}, {})
CommitProgress(tp, name, crs, count) ==
    IF FindByName(tp, name) = 0
    THEN Append(tp, [display_name |-> name, field_id |-> 0, cursor |-> crs,
                     researchers_count |-> count])
    ELSE [tp EXCEPT ![FindByName(tp, name)] = CommittedTopic(tp[FindByName(tp, name)], crs, count)]

\* lines 437-441: the page carried no next_cursor, the walk returns
FinishTopic(next) ==
    /\ pc = "cursor" /\ Falsy(next)
    /\ pc' = "main"
    /\ log' = "no_next_cursor"
    /\ NoWalk
    /\ UNCHANGED <<store, died_at, runs, fetches, kw_left, fetch_topics, global_counter>>
    /\ UNCHANGED workers

\* lines 437-457: the cursor moves on and the progress is saved
SaveProgress(next) ==
    /\ pc = "cursor" /\ ~Falsy(next)
    /\ cursor' = next
    /\ topics' = CommitProgress(topics, display_name, next, current_count)
    /\ pc' = "loop"
    /\ log' = "progress_saved"
    /\ UNCHANGED <<researchers, fields, institutions, countries, orcid_unique, died_at, runs,
                   fetches, kw_left, fetch_topics, global_counter, page_topics,
                   display_name, total_in_db, current_count, reserved_slugs, page_len,
                   idx, new_docs, orcid>>
    /\ UNCHANGED workers

Next ==
    \/ \E found \in TopicResults : FetchTopicsForKeyword(found)
    \/ FetchTopicsError
    \/ StartWalk
    \/ CapStop
    \/ FetchError
    \/ \E n \in PageLengths : FetchPage(n)
    \/ RecordCapBreak
    \/ \E author \in Catalog : SkipAuthor(author)
    \/ \E author \in Catalog, lookup_ok \in BOOLEAN : AdmitAuthor(author, lookup_ok)
    \/ InsertNothing
    \/ InsertBatch
    \/ InsertRaises
    \/ \E next \in NextCursors(cursor) : FinishTopic(next)
    \/ \E next \in NextCursors(cursor) : SaveProgress(next)
    \/ Crash
    \/ Exit
    \/ Restart

Spec == Init /\ [][Next]_vars

\* the steps of fetch_authors_for_topic: a process that is not killed goes
\* on executing them
WalkStep ==
    \/ CapStop
    \/ FetchError
    \/ \E n \in PageLengths : FetchPage(n)
    \/ RecordCapBreak
    \/ \E author \in Catalog : SkipAuthor(author)
    \/ \E author \in Catalog, lookup_ok \in BOOLEAN : AdmitAuthor(author, lookup_ok)
    \/ InsertNothing
    \/ InsertBatch
    \/ InsertRaises
    \/ \E next \in NextCursors(cursor) : FinishTopic(next)
    \/ \E next \in NextCursors(cursor) : SaveProgress(next)

\* the runs that start on an empty collection with the unique index
LiveInit == Init /\ researchers = <<>> /\ orcid_unique

LiveSpec == LiveInit /\ [][Next]_vars /\ WF_vars(WalkStep)

(***************************************************************************)
(* Properties                                                              *)
(***************************************************************************)
\* the researchers_count of every Topic document, by _id
Counts(tp) == [ i \in DOMAIN tp |-> tp[i].researchers_count ]

\* the profile references the topic named name
References(doc, tp, name) ==
    \E k \in DOMAIN doc.topics : tp[doc.topics[k]].display_name = name

\* the display names of the stored topics
TopicNames(tp) == { tp[i].display_name : i \in DOMAIN tp }

\* number of profiles of docs that reference the topic named name
Referencing(docs, tp, name) ==
    Cardinality({ i \in DOMAIN docs : References(docs[i], tp, name) })

\* C1: the persisted Researcher Profiles have non-empty, pairwise distinct
\* ORCID values, also when one upstream page carries an ORCID twice.
C1_OrcidsDistinct ==
    \A i, j \in DOMAIN researchers :
        /\ researchers[i].orcid # ""
        /\ (i # j => researchers[i].orcid # researchers[j].orcid)

\* C2: no persisted count is incremented for a record that is not durably
\* inserted: when the process dies between the normalization of a page's
\* records and the call of insert_many, every Topic's researchers_count is
\* what it was before those records were normalized.
C2_NoCountBeforeCommit ==
    [][ (pc \in {"page", "insert"} /\ new_docs # <<>> /\ pc' = "crashed"
           /\ died_at' \in {"page", "insert"})
        => Counts(topics') = Counts(page_topics) ]_vars

\* C3: the number of profiles inserted in one run never exceeds
\* SESSION_LIMIT, a page that straddles the cap included.
C3_SessionCap == global_counter <= SESSION_LIMIT

\* C4: from a collection of at most MAX_AUTHORS profiles, the number of
\* persisted profiles never exceeds MAX_AUTHORS.
C4_GlobalCap == Len(researchers) <= MAX_AUTHORS

\* C5: no step writes a Topic's researchers_count smaller than the value
\* stored just before.
C5_CountNeverDecreases ==
    [][ \A i \in DOMAIN topics :
            topics'[i].researchers_count >= topics[i].researchers_count ]_vars

\* C6: when the batch insert of a page has returned, every Topic's
\* researchers_count is its value before the page plus the number of the
\* page's newly admitted researchers that reference the Topic.
C6_CountGrowsByAdmitted ==
    pc = "cursor" =>
        \A name \in TopicNames(topics) :
            PersistedCount(topics, name) =
                PersistedCount(page_topics, name) + Referencing(new_docs, topics, name)

\* C7: idempotent resume: every fetch of a walk, the first one included,
\* is issued with the cursor persisted in the Topic's sync_status, and no
\* profile is put in a batch whose ORCID is already in the collection.
C7_IdempotentResume ==
    /\ pc = "loop" => cursor = PersistedCursor(topics, display_name)
    /\ pc \in {"page", "insert"} =>
           \A k \in DOMAIN new_docs : ~OrcidStored(researchers, new_docs[k].orcid)

\* C7 witness: a second run, resumed from a persisted cursor on a store that
\* holds profiles of the first run, is about to insert a batch
C7_Witness ==
    /\ runs = 2 /\ pc = "insert" /\ cursor # "*" /\ new_docs # <<>>
    /\ \E i \in DOMAIN researchers : researchers[i].orcid \in { a.orcid : a \in Catalog }

\* the base slug of a profile's name as line 419-422 derive it
BaseSlug(doc) == _generate_slug(Strip(doc.name))

\* the persisted profiles before position i that carry a slug of the same base
EarlierSameBase(col, i) ==
    { j \in 1..(i - 1) : col[j].slug # <<>> /\ BaseSlug(col[j]) = BaseSlug(col[i]) }

\* C8 as stated: slugs are pairwise distinct and, among the profiles whose
\* names give the same base slug, the first keeps the base and the k-th
\* following one carries base-k, in allocation order.
C8_SuffixInAllocationOrder ==
    \A i \in DOMAIN researchers :
        researchers[i].slug # <<>> =>
            /\ \A j \in DOMAIN researchers : j # i => researchers[j].slug # researchers[i].slug
            /\ LET k == Cardinality(EarlierSameBase(researchers, i))
               IN  researchers[i].slug =
                       IF k = 0 THEN BaseSlug(researchers[i])
                       ELSE Suffixed(BaseSlug(researchers[i]), k)

\* the slugs of the persisted profiles and of the batch not yet inserted are
\* pairwise distinct
SlugsDistinct ==
    LET all == IF pc \in {"page", "insert"} THEN researchers \o new_docs ELSE researchers
    IN  \A i, j \in DOMAIN all : (i # j /\ all[i].slug # <<>>) => all[i].slug # all[j].slug

\* slug is the first of base, base-1, base-2, ... that is not in taken
FirstFree(slug, base, taken) ==
    /\ slug \notin taken
    /\ \/ slug = base
       \/ \E k \in 1..(Cardinality(taken) + 1) :
            /\ slug = Suffixed(base, k)
            /\ base \in taken
            /\ \A j \in 1..(k - 1) : Suffixed(base, j) \in taken

\* C8 amended: slugs are pairwise distinct, and every slug is, at its
\* allocation, the first of base, base-1, base-2, ... that is neither a
\* stored slug nor reserved by the walk.
C8_SlugsUniqueFirstFree ==
    /\ []SlugsDistinct
    /\ [][ (Len(new_docs') = Len(new_docs) + 1 /\ new_docs'[Len(new_docs')].slug # <<>>)
           => FirstFree(new_docs'[Len(new_docs')].slug,
                        BaseSlug(new_docs'[Len(new_docs')]),
                        SlugsOf(researchers) \cup reserved_slugs) ]_vars

\* C8 witness: 'Jane Doe' and 'Jane  Doe!!' are stored as jane-doe and jane-doe-1
C8_Witness ==
    \E i, j \in DOMAIN researchers :
        /\ i < j
        /\ researchers[i].name = JaneDoe /\ researchers[i].slug = _generate_slug(JaneDoe)
        /\ researchers[j].name = JaneDoeBang
        /\ researchers[j].slug = Suffixed(_generate_slug(JaneDoe), 1)

\* C9: a failed fetch ends the walk at once and writes nothing: the
\* Topic's persisted cursor and researchers_count stay those of the last
\* committed page (the walker's own), and main goes on with the topics left.
C9_FetchErrorKeepsCheckpoint ==
    [][ (pc = "loop" /\ log' = "api_error")
        => /\ pc' = "main"
           /\ fetch_topics' = fetch_topics /\ kw_left' = kw_left
           /\ researchers' = researchers
           /\ topics' = topics
           /\ PersistedCursor(topics', display_name) = cursor
           /\ PersistedCount(topics', display_name) = current_count ]_vars

\* C9 witness: a fetch has failed after a committed page, a topic is left to walk
C9_Witness ==
    /\ pc = "main" /\ log = "api_error" /\ fetch_topics # <<>>
    /\ \E i \in DOMAIN topics : topics[i].cursor # "*"

\* C10: a duplicate-key failure of the bulk insert does not end the walk
\* or the run.
C10_DuplicateKeyTolerated == ~(pc = "crashed" /\ died_at = "insert_many")

\* C11: a raw record with an empty or missing ORCID is never inserted and
\* changes no counter: no persisted profile has an empty ORCID, and the step
\* that examines such a record leaves the researcher collection, the batch,
\* the session counter, the walker's count and every Topic's
\* researchers_count as they were.
C11_EmptyOrcidNeverCounted ==
    /\ [](\A i \in DOMAIN researchers : researchers[i].orcid # "")
    /\ [][ (pc = "page" /\ idx' = idx + 1 /\ orcid' = "")
           => /\ researchers' = researchers
              /\ new_docs' = new_docs
              /\ global_counter' = global_counter
              /\ current_count' = current_count
              /\ Counts(topics') = Counts(topics) ]_vars

\* C11 witness: a record without ORCID has been examined after a record of
\* the same page was admitted
C11_Witness ==
    /\ pc \in {"page", "insert"} /\ idx > 1 /\ orcid = ""
    /\ new_docs # <<>> /\ current_count > 0

\* C12: a walk that starts on a Topic whose persisted researchers_count is
\* already MAX_PER_TOPIC or more returns at once: it issues no fetch and
\* writes nothing to the store.
C12_CapMetAtStartNoFetch ==
    [][ (pc = "main" /\ fetch_topics # <<>>
           /\ PersistedCount(topics, Head(fetch_topics)) >= MAX_PER_TOPIC)
        => /\ pc' = "main"
           /\ fetches' = fetches
           /\ store' = store ]_vars

\* C12 witness: a walk has returned on the topic cap before its loop, on a
\* Topic whose persisted count is at the cap
C12_Witness ==
    /\ pc = "main" /\ log = "skip_topic_cap"
    /\ \E i \in DOMAIN topics : topics[i].researchers_count >= MAX_PER_TOPIC

\* C13: when the page in hand carries no continuation token (absent or the
\* empty string) the walk returns after that page without a further fetch:
\* the walk goes on from a processed page only with a real token.
C13_NoTokenEndsWalk ==
    /\ [](pc \in {"loop", "page", "insert", "cursor"} => cursor \notin {"None", ""})
    /\ [][ (pc = "cursor" /\ pc' # "crashed")
           => \/ pc' = "main" /\ log' = "no_next_cursor" /\ fetches' = fetches
                 /\ store' = store
              \/ pc' = "loop" /\ cursor' \in NextCursors(cursor) \ {"None", ""} ]_vars

\* C13 witness: a walk has ended on a page without token after inserting
\* that page's batch
C13_Witness ==
    /\ pc = "main" /\ log = "no_next_cursor" /\ global_counter > 0

\* the record names an institution that is not stored, with a country code
\* that is not stored either
NamesNewCountry(inst) ==
    /\ inst.country_code # <<>>
    /\ RorKey(inst) # ""
    /\ FindByRor(institutions, RorKey(inst)) = 0
    /\ \A c \in DOMAIN countries : countries[c].id # Upper(inst.country_code)

\* C14: when the naming-service lookup fails while a record's institution
\* is resolved, the record is still mapped: the Country is created with
\* display_name equal to its upper-cased code, the Institution is created
\* with that Country as country_id, and the for loop goes on.
C14_LookupFailureStillCreates ==
    [][ \A a \in Catalog :
          AdmitAuthor(a, FALSE) =>
            \A k \in DOMAIN a.affiliations :
              NamesNewCountry(a.affiliations[k]) =>
                LET inst == a.affiliations[k]
                    code == Upper(inst.country_code)
                IN  /\ \E c \in DOMAIN countries' :
                          /\ countries'[c].id = code
                          /\ countries'[c].display_name = code
                    /\ \E i \in DOMAIN institutions' :
                          /\ institutions'[i].ror = RorKey(inst)
                          /\ institutions'[i].country_id = code
                          /\ <<"institution", i>> \in Range(new_docs'[Len(new_docs')].search_tags)
                    /\ pc' \in {"page", "insert"}
                    /\ Len(new_docs') = Len(new_docs) + 1 ]_vars

\* C14 witness: a profile of the batch is affiliated to an Institution whose
\* Country carries its code as display_name
C14_Witness ==
    /\ pc \in {"page", "insert"}
    /\ \E k \in DOMAIN new_docs, i \in DOMAIN institutions, c \in DOMAIN countries :
          /\ i \in Range(new_docs[k].affiliations)
          /\ institutions[i].country_id = countries[c].id
          /\ countries[c].display_name = countries[c].id

\* C15: within the processing of one page, the walked Topic's persisted
\* cursor and researchers_count are written only after the batch insert of
\* the page has returned: no step taken before it changes either of them.
C15_ProgressOnlyAfterInsert ==
    [][ (pc \in {"loop", "page", "insert"})
        => /\ PersistedCursor(topics', display_name) =
                  PersistedCursor(topics, display_name)
           /\ PersistedCount(topics', display_name) =
                  PersistedCount(topics, display_name) ]_vars

\* C16: at the end of a walk that finished normally, the last page included,
\* the walked Topic's persisted researchers_count is its count at the start
\* of the walk plus the number of records the walk inserted, which is the
\* walker's current_count.
C16_CountCommittedAtWalkEnd ==
    [][ (pc \in {"loop", "cursor"} /\ pc' = "main")
        => PersistedCount(topics', display_name) = current_count ]_vars

\* no entry occurs twice in the list
NoDuplicates(tags) ==
    \A i, j \in DOMAIN tags : i # j => tags[i] # tags[j]

\* the natural keys of a collection's documents, in document order
KeysOf(col, key) == [ i \in DOMAIN col |-> col[i][key] ]

\* C17: the store holds at most one Country per code, one Institution per
\* ROR-or-name key, one Field per display name and one Topic per display
\* name.
C17_OneDocumentPerKey ==
    /\ NoDuplicates(KeysOf(countries, "id"))
    /\ NoDuplicates(KeysOf(institutions, "ror"))
    /\ NoDuplicates(KeysOf(fields, "display_name"))
    /\ NoDuplicates(KeysOf(topics, "display_name"))

\* C18: the search_tags of every normalized profile, persisted or in the
\* batch, contain no entry twice.
C18_TagsDeduplicated ==
    /\ \A i \in DOMAIN researchers : NoDuplicates(researchers[i].search_tags)
    /\ \A k \in DOMAIN new_docs : NoDuplicates(new_docs[k].search_tags)

\* C19: the ORCID check precedes all reference resolution: the step that
\* examines a record whose ORCID is empty or already stored leaves the
\* countries, institutions, fields and topics collections unchanged, every
\* Topic's sync_status included.
C19_RejectedLeavesReferences ==
    [][ (pc = "page" /\ idx' = idx + 1
           /\ (orcid' = "" \/ OrcidStored(researchers, orcid')))
        => /\ countries' = countries
           /\ institutions' = institutions
           /\ fields' = fields
           /\ topics' = topics ]_vars

\* C19 witness: a record whose ORCID is already stored has been examined,
\* on a store that holds reference documents
C19_Witness ==
    /\ pc \in {"page", "insert"} /\ idx > 1
    /\ orcid # "" /\ OrcidStored(researchers, orcid)
    /\ topics # <<>> /\ fields # <<>>

\* the institutions the upstream records name
CatalogInstitutions ==
    UNION { Range(a.affiliations) \cup Range(a.last_known_institutions) : a \in Catalog }

\* C20: find-or-create never overwrites: in every reachable store,
\* upsert_topic, upsert_country and the institution upsert called for a key
\* that is stored leave the collection as it is, and topic discovery leaves
\* every stored Topic, its cursor and researchers_count included, as it is.
C20_FindOrCreateKeepsExisting ==
    /\ [](\A t \in {T1, T2} :
            ByName(topics, t.display_name) # {} =>
                upsert_topic([tp |-> topics, fl |-> fields, out |-> <<>>], t).tp = topics)
    /\ [](\A inst \in CatalogInstitutions, ok \in BOOLEAN :
            (\E c \in DOMAIN countries : countries[c].id = Upper(inst.country_code)) =>
                CountriesAfterUpsert(countries, inst.country_code, ok) = countries)
    /\ [](\A inst \in CatalogInstitutions :
            FindByRor(institutions, RorKey(inst)) # 0 =>
                InstitutionsAfterUpsert(institutions,
                    [display_name |-> "", ror |-> RorKey(inst), country_id |-> <<>>])
                  = institutions)
    /\ [][ (pc = "main" /\ log' = "topics_fetched")
           => \A i \in DOMAIN topics : topics'[i] = topics[i] ]_vars

\* C20 witness: discovery has run on a store that holds a Topic with a
\* saved cursor and a positive count, a Country and an Institution, and has
\* scheduled that Topic
C20_Witness ==
    /\ pc = "main" /\ log = "topics_fetched"
    /\ countries # <<>> /\ institutions # <<>>
    /\ \E i \in DOMAIN topics :
          /\ topics[i].cursor # "*" /\ topics[i].researchers_count > 0
          /\ topics[i].display_name \in Range(fetch_topics)

\* the messages of the cap stops: the early returns and the breaks
CapMessages ==
    {"skip_db_cap", "skip_session_cap", "skip_topic_cap",
     "stop_session_cap", "stop_db_cap", "stop_topic_cap"}

\* the run-wide caps: the session counter or the collection is at its cap
RunCapReached ==
    global_counter >= SESSION_LIMIT \/ count_documents(researchers) >= MAX_AUTHORS

C22_TopicCapPerRecord ==
    /\ [](current_count <= MAX_PER_TOPIC)
    /\ [][ Len(new_docs') = Len(new_docs) + 1
           => current_count < MAX_PER_TOPIC /\ current_count' = current_count + 1 ]_vars

\* C22 witness: the for loop was left on the topic cap with a record of the
\* page not yet examined, in a walk that started below the cap
C22_Witness ==
    /\ pc = "insert" /\ idx <= page_len
    /\ current_count = MAX_PER_TOPIC /\ Len(new_docs) < MAX_PER_TOPIC
    /\ new_docs # <<>>

\* names from which no slug can be derived: empty, blank, symbols only
SluglessNames ==
    { <<>>, <<" ", " ">>, <<"!", "!">>, <<"-">>, <<" ", "!", "-", " ">> }

\* the ORCIDs of the upstream records whose name gives no slug
SluglessOrcids ==
    { a.orcid : a \in { b \in Catalog : b.orcid # "" /\ b.display_name \in SluglessNames } }

\* C23: a record whose name is empty or yields no slug is still admitted
\* and inserted, without a slug: for such a name lines 419-428 assign no
\* slug whatever the collection and the reserved set hold, the step that
\* examines such a record with a new ORCID appends it to the batch, and the
\* batch insert writes every profile of the batch.
C23_SluglessStillAdmitted ==
    /\ [](\A name \in SluglessNames : SlugFor(name, researchers, reserved_slugs) = <<>>)
    /\ [][ (pc = "page" /\ idx' = idx + 1 /\ orcid' \in SluglessOrcids
             /\ ~OrcidStored(researchers, orcid'))
           => /\ pc' \in {"page", "insert"}
              /\ Len(new_docs') = Len(new_docs) + 1
              /\ new_docs'[Len(new_docs')].orcid = orcid'
              /\ new_docs'[Len(new_docs')].slug = <<>>
              /\ current_count' = current_count + 1 ]_vars
    /\ [][ (pc = "insert" /\ pc' = "cursor")
           => \A k \in DOMAIN new_docs :
                \E i \in DOMAIN researchers' : researchers'[i] = new_docs[k] ]_vars

\* C23 witness: a profile with an empty name and without slug is stored,
\* after a profile that has a slug
C23_Witness ==
    \E i, j \in DOMAIN researchers :
        /\ i < j
        /\ researchers[i].slug # <<>> /\ researchers[i].orcid \in { a.orcid : a \in Catalog }
        /\ researchers[j].name \in SluglessNames /\ researchers[j].slug = <<>>
        /\ researchers[j].orcid \in SluglessOrcids

\* C24: a Researcher Profile is written once: no step of any walk or run
\* removes or changes a document of the researcher collection, its slug
\* included, also when its ORCID is met again in a later page or topic.
C24_ProfileNeverUpdated ==
    [][ \A i \in DOMAIN researchers :
          i \in DOMAIN researchers' /\ researchers'[i] = researchers[i] ]_vars

\* C24 witness: a record whose ORCID belongs to a stored profile with a
\* slug has been met again, in the walk of another topic or in a later run
C24_Witness ==
    /\ pc \in {"page", "insert"} /\ idx > 1
    /\ \E i \in DOMAIN researchers :
          /\ researchers[i].orcid = orcid
          /\ researchers[i].slug # <<>>
          /\ \/ runs > 1
             \/ \A t \in Range(researchers[i].topics) :
                    topics[t].display_name # display_name

\* C26: the persisted cursor moves past a page only when every record of
\* the page was examined, or when no record the page can still hold is
\* eligible (non-empty ORCID that is not stored).
C26_NoRecordLostByCursor ==
    [][ (pc = "cursor" /\ pc' = "loop")
        => \/ idx > page_len
           \/ \A a \in Catalog : a.orcid = "" \/ OrcidStored(researchers, a.orcid) ]_vars

\* C27: at every global-cap check inside a walk, the value compared with
\* MAX_AUTHORS is the number of profiles in the researcher collection.
C27_GlobalCapValueIsStoreSize ==
    pc \in {"loop", "page"} =>
        total_in_db + global_counter = count_documents(researchers)

\* the persisted profiles whose topics list contains the Topic of _id id
ProfilesOf(id) ==
    { i \in DOMAIN researchers : id \in Range(researchers[i].topics) }

\* C28: in a first run on an empty store, whenever no walk is in progress
\* every Topic's researchers_count is the number of persisted profiles
\* whose topics list contains the Topic.
C28_CountMatchesProfiles ==
    (runs = 1 /\ pc = "main"
       /\ \A i \in DOMAIN researchers : researchers[i].orcid \notin Range(LegacyOrcids))
    => \A id \in DOMAIN topics :
           topics[id].researchers_count = Cardinality(ProfilesOf(id))

\* a walk is in progress
InWalk == pc \in {"loop", "page", "insert", "cursor"}

\* the walk is at the head of its loop and every request the runs may issue
\* has been issued
RequestsSpent ==
    /\ pc = "loop" /\ fetches = MaxFetches
    /\ StopReason(total_in_db, global_counter, current_count) = ""

\* position of a token in the cursor chain of the partition
ChainIndex(token) == CHOOSE i \in DOMAIN CursorChain : CursorChain[i] = token

\* names given to the slug allocator
ProbedNames == { JaneDoe, JaneDoeBang, JaneDoe1, <<"!", "!">> }

\* C29: every walk terminates. Each round of the while loop ends: a walk in
\* progress returns, or comes back to the head of the loop for a request
\* the runs may no more issue; each round that goes on has moved the cursor
\* forward along the finite chain of the partition, so there are at most
\* Len(CursorChain) rounds; and _generate_unique_slug returns after at most
\* one probe more than there are stored and reserved slugs.
C29_WalkTerminates ==
    /\ InWalk ~> (~InWalk \/ RequestsSpent)
    /\ [][ (pc = "cursor" /\ pc' = "loop")
           => ChainIndex(cursor') > ChainIndex(cursor) ]_vars
    /\ [](\A name \in ProbedNames :
            ProbeCount(_generate_slug(name), _generate_slug(name), 1,
                       researchers, reserved_slugs)
              <= Cardinality(SlugsOf(researchers) \cup reserved_slugs) + 1)

\* C29 witness: a walk that fetched two pages has returned at the end of the
\* stream, with slugs stored that the allocator had to probe past
C29_Witness ==
    /\ pc = "main" /\ log = "no_next_cursor" /\ fetches = MaxFetches
    /\ \E i \in DOMAIN topics : topics[i].cursor # "*"
    /\ \E i \in DOMAIN researchers :
          researchers[i].slug = Suffixed(_generate_slug(JaneDoe), 1)

(***************************************************************************)
(* Two processes normalizing records on one store: map_author_to_profile   *)
(* step by step, a step being one call of the document store (one call of  *)
(* the loop of process_researcher_topics taken as a whole)                 *)
(***************************************************************************)
Workers == {1, 2}

\* the records the two processes normalize: new ORCID, no topic named twice
RaceRecords == { a \in Catalog : a.orcid # "" /\ NoDuplicates(a.topics) }

\* a process entering map_author_to_profile(author)
WorkerAt(author) ==
    [pc |-> "find_inst", author |-> author,
     todo |-> author.affiliations \o author.last_known_institutions,
     ror_to_id |-> {}, existing |-> <<>>, missing_docs |-> <<>>]

RaceInit ==
    /\ researchers = <<>> /\ topics = <<>> /\ fields = <<>>
    /\ institutions = <<>> /\ countries = <<>>
    /\ orcid_unique = FALSE
    /\ pc = "page" /\ died_at = "" /\ runs = 1 /\ fetches = 0
    /\ kw_left = 0 /\ fetch_topics = <<>> /\ global_counter = 0
    /\ display_name = "" /\ total_in_db = 0 /\ current_count = 0 /\ cursor = "*"
    /\ reserved_slugs = {} /\ page_len = 0 /\ idx = 1 /\ new_docs = <<>>
    /\ orcid = "" /\ log = "" /\ page_topics = <<>>
    /\ workers \in [Workers -> { WorkerAt(a) : a \in RaceRecords }]

\* what a step of a normalizing process leaves alone
RaceFrame ==
    UNCHANGED <<researchers, orcid_unique, pc, died_at, runs, fetches, kw_left,
                fetch_topics, global_counter, display_name, total_in_db, current_count,
                cursor, reserved_slugs, page_len, idx, new_docs, orcid, log, page_topics>>

\* lines 220-233 and 263-272: the next institution of the record is looked
\* up, in ror_to_id and then in the collection
FindInstitution(w) ==
    /\ workers[w].pc = "find_inst"
    /\ LET me   == workers[w]
           inst == Head(me.todo)
       IN  workers' =
             [workers EXCEPT ![w] =
                IF me.todo = <<>> THEN [me EXCEPT !.pc = "find_topics"]
                ELSE IF RorKey(inst) = "" \/ RorKey(inst) \in me.ror_to_id
                THEN [me EXCEPT !.todo = Tail(me.todo)]
                ELSE IF FindByRor(institutions, RorKey(inst)) # 0
                THEN [me EXCEPT !.todo = Tail(me.todo),
                                !.ror_to_id = me.ror_to_id \cup {RorKey(inst)}]
                ELSE [me EXCEPT !.pc = "create_inst"]]
    /\ UNCHANGED <<topics, fields, institutions, countries>>
    /\ RaceFrame

\* lines 237-247 and 275-285: the institution was not found; its country and
\* the institution are upserted
CreateInstitution(w, lookup_ok) ==
    /\ workers[w].pc = "create_inst"
    /\ LET me   == workers[w]
           inst == Head(me.todo)
           doc  == [display_name |-> inst.display_name, ror |-> RorKey(inst),
                    country_id |-> upsert_country(inst.country_code)]
       IN  /\ countries' = CountriesAfterUpsert(countries, inst.country_code, lookup_ok)
           /\ institutions' = InstitutionsAfterUpsert(institutions, doc)
           /\ workers' = [workers EXCEPT ![w] =
                             [me EXCEPT !.pc = "find_inst", !.todo = Tail(me.todo),
                                        !.ror_to_id = me.ror_to_id \cup {RorKey(inst)}]]
    /\ UNCHANGED <<topics, fields>>
    /\ RaceFrame

\* lines 147-152: the topics of the record that are stored are read
FindTopics(w) ==
    /\ workers[w].pc = "find_topics"
    /\ workers' = [workers EXCEPT ![w] =
                      [workers[w] EXCEPT !.pc = "loop_topics", !.existing = topics]]
    /\ UNCHANGED <<topics, fields, institutions, countries>>
    /\ RaceFrame

\* lines 159-194: the loop over the record's topics, on what was read
LoopTopics(w) ==
    /\ workers[w].pc = "loop_topics"
    /\ LET me == workers[w]
           st == TopicLoop([tp |-> topics, fl |-> fields, snap |-> me.existing,
                            ids |-> <<>>, tags |-> <<>>, missing |-> <<>>, added |-> {}],
                           me.author.topics)
       IN  /\ topics' = st.tp
           /\ fields' = st.fl
           /\ workers' = [workers EXCEPT ![w] =
                             [me EXCEPT !.pc = "insert_topics", !.missing_docs = st.missing]]
    /\ UNCHANGED <<institutions, countries>>
    /\ RaceFrame

\* lines 196-204: the topics that were not found are inserted
InsertTopics(w) ==
    /\ workers[w].pc = "insert_topics"
    /\ topics' = topics \o workers[w].missing_docs
    /\ workers' = [workers EXCEPT ![w] =
                      [workers[w] EXCEPT !.pc = "done", !.missing_docs = <<>>]]
    /\ UNCHANGED <<fields, institutions, countries>>
    /\ RaceFrame

RaceNext ==
    \/ \E w \in Workers : FindInstitution(w)
    \/ \E w \in Workers, lookup_ok \in BOOLEAN : CreateInstitution(w, lookup_ok)
    \/ \E w \in Workers : FindTopics(w)
    \/ \E w \in Workers : LoopTopics(w)
    \/ \E w \in Workers : InsertTopics(w)

RaceSpec == RaceInit /\ [][RaceNext]_vars

\* C25: when two processes normalize records that name the same
\* not-yet-stored natural key, with their find and create steps interleaved
\* in any order, the store holds one Country per code, one Institution per
\* key, one Field per display name and one Topic per display name.
C25_RaceKeepsOnePerKey ==
    /\ \A i, j \in DOMAIN countries : countries[i].id = countries[j].id => i = j
    /\ \A i \in DOMAIN institutions : FindByRor(institutions, institutions[i].ror) = i
    /\ \A i \in DOMAIN fields : Cardinality(ByName(fields, fields[i].display_name)) = 1
    /\ \A name \in TopicNames(topics) : Cardinality(ByName(topics, name)) = 1

====
